---- MODULE Spec2Model ----
(***************************************************************************)
(* i3-scaler: a model of src/i3-scaler.py.                                 *)
(*                                                                         *)
(* Files are modelled as text (TLA+ strings); a file is read with          *)
(* readlines (split after every "\n", the last line may be unterminated)   *)
(* and written with writelines (plain concatenation), as Python does.      *)
(* The home directory is the function fs from the seven target paths to    *)
(* [exists, content].                                                      *)
(***************************************************************************)
EXTENDS Integers, Sequences, FiniteSets, TLC

VARIABLES
    fs,        \* the files under the user's home: path -> [exists, content]
    orig,      \* fs as it was before the run (history)
    snap,      \* fs as it was before the last call that wrote (history)
    pc,        \* position of main(), or "harness" when one function is driven alone
    outcome,   \* "running", "success", "input_error", "crashed"
    failedAt,  \* the step at which an exception escaped, "none" otherwise
    injected,  \* TRUE once the environment made a file operation fail
    dpi,       \* int(input(...)) for the DPI, -1 before it is read
    font_size, \* int(input(...)) for the font size, -1 before it is read
    cmds,      \* the external commands run so far, with their exit status
    args,      \* the arguments of the function a harness drives
    calls      \* how many times the harness has called it

vars == <<fs, orig, snap, pc, outcome, failedAt, injected, dpi, font_size, cmds, args, calls>>

---------------------------------------------------------------------------
(* Bounds of the model *)

MaxLines == 3
MaxCalls == 2

---------------------------------------------------------------------------
(* Python's str operations *)

Char(s, i) == SubSeq(s, i, i)

Whitespace == {" ", "\t", "\n"}

RECURSIVE LStrip(_)
LStrip(s) ==
    IF Len(s) > 0 /\ Char(s, 1) \in Whitespace
    THEN LStrip(SubSeq(s, 2, Len(s)))
    ELSE s

RECURSIVE RStrip(_)
RStrip(s) ==
    IF Len(s) > 0 /\ Char(s, Len(s)) \in Whitespace
    THEN RStrip(SubSeq(s, 1, Len(s) - 1))
    ELSE s

Strip(s) == RStrip(LStrip(s))

StartsWith(s, p) == Len(p) <= Len(s) /\ SubSeq(s, 1, Len(p)) = p

EndsWith(s, p) == Len(p) <= Len(s) /\ SubSeq(s, Len(s) - Len(p) + 1, Len(s)) = p

\* `p in s`
Contains(s, p) == \E i \in 1..(Len(s) - Len(p) + 1) : SubSeq(s, i, i + Len(p) - 1) = p

\* s.split("=")[-1]: the text after the last "=", the whole of s when it has none
RECURSIVE SplitLast(_, _)
SplitLast(s, i) ==
    IF i = 0 THEN s
    ELSE IF Char(s, i) = "=" THEN SubSeq(s, i + 1, Len(s))
    ELSE SplitLast(s, i - 1)

Digit(d) == SubSeq("0123456789", d + 1, d + 1)

\* str(n) / f"{n}" of an int
RECURSIVE NatToStr(_)
NatToStr(n) == IF n < 10 THEN Digit(n) ELSE NatToStr(n \div 10) \o Digit(n % 10)

IntToStr(n) == IF n < 0 THEN "-" \o NatToStr(0 - n) ELSE NatToStr(n)

IsDigit(c) == \E d \in 0..9 : c = Digit(d)

DigitVal(c) == CHOOSE d \in 0..9 : c = Digit(d)

RECURSIVE DigitsVal(_)
DigitsVal(s) ==
    IF Len(s) = 0 THEN 0
    ELSE 10 * DigitsVal(SubSeq(s, 1, Len(s) - 1)) + DigitVal(Char(s, Len(s)))

AllDigits(s) == Len(s) > 0 /\ \A i \in 1..Len(s) : IsDigit(Char(s, i))

Unsigned(s) ==
    IF Len(s) > 0 /\ Char(s, 1) \in {"+", "-"} THEN SubSeq(s, 2, Len(s)) ELSE s

\* int(s) succeeds: surrounding whitespace, an optional sign, decimal digits
IsInt(s) == AllDigits(Unsigned(Strip(s)))

\* int(s), for IsInt(s)
ParseInt(s) ==
    LET t == Strip(s)
        v == DigitsVal(Unsigned(t))
    IN  IF Char(t, 1) = "-" THEN 0 - v ELSE v

RECURSIVE DropTrailingZeros(_)
DropTrailingZeros(s) ==
    IF Len(s) > 1 /\ Char(s, Len(s)) = "0"
    THEN DropTrailingZeros(SubSeq(s, 1, Len(s) - 1))
    ELSE s

\* the five decimal places of r/32, 0 <= r < 32 (r/32 = r*3125/100000)
Pad5(n) == SubSeq("00000", 1, 5 - Len(NatToStr(n))) \o NatToStr(n)

\* str(dpi / 96) for a dpi >= 0 that is a multiple of 3: dpi/96 = (dpi/3)/32 is
\* then a short exact decimal, which is Python's repr of the float
scale_factor_str(d) ==
    LET m == d \div 3
    IN  NatToStr(m \div 32) \o "." \o DropTrailingZeros(Pad5((m % 32) * 3125))

---------------------------------------------------------------------------
(* Files *)

RECURSIVE FirstNewline(_, _)
FirstNewline(c, i) ==
    IF i > Len(c) THEN 0
    ELSE IF Char(c, i) = "\n" THEN i
    ELSE FirstNewline(c, i + 1)

\* file.readlines(): every line keeps its "\n"; the last one may have none
RECURSIVE readlines(_)
readlines(c) ==
    IF Len(c) = 0 THEN << >>
    ELSE LET n == FirstNewline(c, 1)
         IN  IF n = 0 THEN <<c>>
             ELSE <<SubSeq(c, 1, n)>> \o readlines(SubSeq(c, n + 1, Len(c)))

\* file.writelines(lines): the lines one after the other, nothing added
RECURSIVE writelines(_)
writelines(lines) ==
    IF Len(lines) = 0 THEN "" ELSE Head(lines) \o writelines(Tail(lines))

Absent == [exists |-> FALSE, content |-> ""]

File(c) == [exists |-> TRUE, content |-> c]

XresourcesPath == ".Xresources"
I3ConfigPath == ".config/i3/config"
LegacyI3ConfigPath == ".i3/config"
Gtk3ConfigPath == ".config/gtk-3.0/settings.ini"
Gtk2ConfigPath == ".gtkrc-2.0"
Gtk4ConfigPath == ".config/gtk-4.0/settings.ini"
ProfilePath == ".profile"

Paths == {XresourcesPath, I3ConfigPath, LegacyI3ConfigPath, Gtk3ConfigPath,
          Gtk2ConfigPath, Gtk4ConfigPath, ProfilePath}

---------------------------------------------------------------------------
(* update_or_append_line(file_path, key, value, command=False) *)

LineRender(file_path, key, value) ==
    IF EndsWith(file_path, ".Xresources")
    THEN key \o ": " \o value \o "\n"
    ELSE key \o "=" \o value \o "\n"

\* the loop over enumerate(lines): every matching line is rewritten
UpdateLine(line, file_path, key, value, command) ==
    IF command /\ Contains(line, key) THEN key \o " " \o value \o "\n"
    ELSE IF StartsWith(Strip(line), key) THEN LineRender(file_path, key, value)
    ELSE line

LineMatches(line, key, command) ==
    (command /\ Contains(line, key)) \/ StartsWith(Strip(line), key)

UpdateOrAppendLines(lines, file_path, key, value, command) ==
    LET rewritten == [i \in 1..Len(lines) |->
                        UpdateLine(lines[i], file_path, key, value, command)]
        updated == \E i \in 1..Len(lines) : LineMatches(lines[i], key, command)
    IN  IF updated THEN rewritten
        ELSE Append(rewritten,
                    IF command THEN key \o " " \o value \o "\n"
                    ELSE LineRender(file_path, key, value))

\* the file after the call: a missing file is read as no lines, and is written
update_or_append_line(f, file_path, key, value, command) ==
    LET lines == IF f.exists THEN readlines(f.content) ELSE << >>
    IN  File(writelines(UpdateOrAppendLines(lines, file_path, key, value, command)))

---------------------------------------------------------------------------
(* update_config_file(config_path, settings_dict); settings_dict is the     *)
(* sequence of its [key, value] items in iteration order                   *)

ConfigRender(config_path, key, value) ==
    IF EndsWith(config_path, ".ini")
    THEN key \o "=" \o value \o "\n"
    ELSE key \o " = " \o value \o "\n"

\* the first key, in iteration order, that the stripped line starts with; 0 if none
FirstKey(line, settings) ==
    LET M == {i \in 1..Len(settings) : StartsWith(Strip(line), settings[i].key)}
    IN  IF M = {} THEN 0 ELSE CHOOSE i \in M : \A j \in M : i <= j

UpdatedLines(lines, config_path, settings) ==
    [i \in 1..Len(lines) |->
        LET k == FirstKey(lines[i], settings)
        IN  IF k = 0 THEN lines[i]
            ELSE ConfigRender(config_path, settings[k].key, settings[k].value)]

\* the second loop: a key is appended when no line of updated_lines, the lines
\* appended for earlier keys included, starts with it
RECURSIVE AppendMissing(_, _, _, _)
AppendMissing(updated_lines, config_path, settings, i) ==
    IF i > Len(settings) THEN updated_lines
    ELSE LET key == settings[i].key
             found == \E j \in 1..Len(updated_lines) :
                          StartsWith(Strip(updated_lines[j]), key)
         IN  AppendMissing(
                 IF found THEN updated_lines
                 ELSE Append(updated_lines,
                             ConfigRender(config_path, key, settings[i].value)),
                 config_path, settings, i + 1)

update_config_file(f, config_path, settings) ==
    LET lines == IF f.exists THEN readlines(f.content) ELSE << >>
    IN  File(writelines(AppendMissing(UpdatedLines(lines, config_path, settings),
                                      config_path, settings, 1)))

---------------------------------------------------------------------------
(* set_i3_font_size(font_size, dpi, user_home) *)

FontLine(fsize) == "font pango:monospace " \o IntToStr(fsize) \o "\n"

XrandrCommand(d) == "exec xrandr --dpi " \o IntToStr(d)

IsFontLine(line) == StartsWith(Strip(line), "font")

IsXrandrLine(line) == StartsWith(Strip(line), "exec xrandr --dpi")

\* the loop with the font directive handled like the xrandr one: the first font
\* line rewritten, the later ones skipped, the line appended when there was none
RECURSIVE I3RewriteDropFonts(_, _, _, _, _)
I3RewriteDropFonts(config_lines, i, found, fsize, d) ==
    IF i > Len(config_lines)
    THEN (IF \E j \in 1..Len(config_lines) : IsFontLine(config_lines[j])
          THEN << >> ELSE <<FontLine(fsize)>>)
         \o (IF found THEN << >> ELSE <<XrandrCommand(d) \o "\n">>)
    ELSE LET line == config_lines[i]
         IN  IF IsFontLine(line)
             THEN (IF \E j \in 1..(i - 1) : IsFontLine(config_lines[j])
                   THEN << >> ELSE <<FontLine(fsize)>>)
                  \o I3RewriteDropFonts(config_lines, i + 1, found, fsize, d)
             ELSE IF IsXrandrLine(line)
             THEN IF ~found
                  THEN <<XrandrCommand(d) \o "\n">>
                           \o I3RewriteDropFonts(config_lines, i + 1, TRUE, fsize, d)
                  ELSE I3RewriteDropFonts(config_lines, i + 1, found, fsize, d)
             ELSE <<line>> \o I3RewriteDropFonts(config_lines, i + 1, found, fsize, d)

\* the loop over config_lines from index i on; found is xrandr_found
RECURSIVE I3Rewrite(_, _, _, _, _)
I3Rewrite(config_lines, i, found, fsize, d) ==
    IF i > Len(config_lines)
    THEN IF found THEN << >> ELSE <<XrandrCommand(d) \o "\n">>
    ELSE LET line == config_lines[i]
         IN  IF IsFontLine(line)
             THEN <<FontLine(fsize)>> \o I3Rewrite(config_lines, i + 1, found, fsize, d)
             ELSE IF IsXrandrLine(line)
             THEN IF ~found
                  THEN <<XrandrCommand(d) \o "\n">>
                           \o I3Rewrite(config_lines, i + 1, TRUE, fsize, d)
                  ELSE I3Rewrite(config_lines, i + 1, found, fsize, d)
             ELSE <<line>> \o I3Rewrite(config_lines, i + 1, found, fsize, d)

\* the path the function opens: the legacy one only when the primary is missing
\* and the legacy one exists
I3Path(files) ==
    IF ~files[I3ConfigPath].exists /\ files[LegacyI3ConfigPath].exists
    THEN LegacyI3ConfigPath
    ELSE I3ConfigPath

set_i3_font_size(f, fsize, d) ==
    File(writelines(I3Rewrite(readlines(f.content), 1, FALSE, fsize, d)))

---------------------------------------------------------------------------
(* update_or_append_env_var(file_path, key, value) *)

ExportPrefix(key) == "export " \o key \o "="

EnvLine(line, key, value) ==
    IF StartsWith(Strip(line), ExportPrefix(key))
    THEN IF SplitLast(Strip(line), Len(Strip(line))) # value
         THEN ExportPrefix(key) \o value \o "\n"
         ELSE line
    ELSE line

UpdateOrAppendEnvLines(lines, key, value) ==
    LET rewritten == [i \in 1..Len(lines) |-> EnvLine(lines[i], key, value)]
        updated == \E i \in 1..Len(lines) : StartsWith(Strip(lines[i]), ExportPrefix(key))
    IN  IF updated THEN rewritten
        ELSE Append(rewritten, ExportPrefix(key) \o value \o "\n")

update_or_append_env_var(f, key, value) ==
    LET lines == IF f.exists THEN readlines(f.content) ELSE << >>
    IN  File(writelines(UpdateOrAppendEnvLines(lines, key, value)))

---------------------------------------------------------------------------
(* set_gtk_scaling: the three settings mappings *)

Gtk3Settings(d, fsize) ==
    << [key |-> "gtk-font-name", value |-> "Sans " \o IntToStr(fsize)],
       [key |-> "gtk-dpi", value |-> IntToStr(d)],
       [key |-> "gtk-xft-dpi", value |-> IntToStr(d * 1000)] >>

Gtk2Settings(d, fsize) ==
    << [key |-> "gtk-font-name", value |-> "Sans " \o IntToStr(fsize)],
       [key |-> "gtk-xft-dpi", value |-> IntToStr(d * 1000)] >>

Gtk4Settings(d, fsize) ==
    << [key |-> "gtk-font-name", value |-> "Sans " \o IntToStr(fsize)],
       [key |-> "gtk-xft-dpi", value |-> IntToStr(d * 1000)] >>

---------------------------------------------------------------------------
(* Inputs the model draws from *)

\* what the user may type at the two prompts
DpiInputs == {"144", " 96 ", "abc"}
FontInputs == {"14", "12", "14.5"}

\* how an external command may end
CmdStatus == {"ok", "nonzero", "notfound"}

\* all sequences of at most n elements of S
SeqsUpTo(S, n) == UNION {[1..k -> S] : k \in 0..n}

\* c without its last character when that is a newline
Unterminated(c) ==
    IF Len(c) > 0 /\ Char(c, Len(c)) = "\n" THEN SubSeq(c, 1, Len(c) - 1) ELSE c

\* the texts of at most n lines of pool, the last line terminated or not
Texts(pool, n) ==
    LET whole == {writelines(ls) : ls \in SeqsUpTo(pool, n)}
    IN  whole \cup {Unterminated(c) : c \in whole}

\* the files of at most n lines of pool, and the missing file
Files(pool, n) == {Absent} \cup {File(c) : c \in Texts(pool, n)}

\* the home directories the run starts from
XresourcesPool == {Absent, File("*background: black\nXft.dpi: 96")}
I3ConfigPool ==
    {Absent,
     File("font pango:DejaVu Sans 10\nexec xrandr --dpi 96\n"),
     File("bindsym Mod1+Return exec i3-sensible-terminal\n")}
LegacyI3ConfigPool == {Absent, File("font pango:monospace 8\n")}
Gtk3Pool == {Absent, File("[Settings]\ngtk-font-name=Sans 10\n")}
Gtk2Pool == {Absent, File("gtk-theme-name = Adwaita")}
Gtk4Pool == {Absent, File("[Settings]\n")}
ProfilePool ==
    {Absent, File("export QT_FONT_DPI=96\n"), File("export PATH=$HOME/bin:$PATH\n")}

Homes ==
    {[p \in Paths |->
        CASE p = XresourcesPath -> x
          [] p = I3ConfigPath -> i
          [] p = LegacyI3ConfigPath -> l
          [] p = Gtk3ConfigPath -> g3
          [] p = Gtk2ConfigPath -> g2
          [] p = Gtk4ConfigPath -> g4
          [] p = ProfilePath -> pr] :
        x \in XresourcesPool, i \in I3ConfigPool, l \in LegacyI3ConfigPool,
        g3 \in Gtk3Pool, g2 \in Gtk2Pool, g4 \in Gtk4Pool, pr \in ProfilePool}

EmptyHome == [p \in Paths |-> Absent]

---------------------------------------------------------------------------
(* main() *)

FileSteps == {"xresources", "i3", "gtk3", "gtk2", "gtk4", "qt_scale", "qt_dpi"}

\* main() with the .Xresources update moved up, before the font size is read
NextPcWriteEarly(p) ==
    CASE p = "input_dpi" -> "xresources"
      [] p = "xresources" -> "input_font"
      [] p = "input_font" -> "xrdb"
      [] p = "xrdb" -> "i3"
      [] p = "i3" -> "gtk3"
      [] p = "gtk3" -> "gtk2"
      [] p = "gtk2" -> "gtk4"
      [] p = "gtk4" -> "qt_scale"
      [] p = "qt_scale" -> "qt_dpi"
      [] p = "qt_dpi" -> "restart"
      [] p = "restart" -> "done"

\* the order of main()'s statements
NextPc(p) ==
    CASE p = "input_dpi" -> "input_font"
      [] p = "input_font" -> "xresources"
      [] p = "xresources" -> "xrdb"
      [] p = "xrdb" -> "i3"
      [] p = "i3" -> "gtk3"
      [] p = "gtk3" -> "gtk2"
      [] p = "gtk2" -> "gtk4"
      [] p = "gtk4" -> "qt_scale"
      [] p = "qt_scale" -> "qt_dpi"
      [] p = "qt_dpi" -> "restart"
      [] p = "restart" -> "done"

\* the file a step reads and writes
StepPath(p, files) ==
    CASE p = "xresources" -> XresourcesPath
      [] p = "i3" -> I3Path(files)
      [] p = "gtk3" -> Gtk3ConfigPath
      [] p = "gtk2" -> Gtk2ConfigPath
      [] p = "gtk4" -> Gtk4ConfigPath
      [] p = "qt_scale" -> ProfilePath
      [] p = "qt_dpi" -> ProfilePath

\* main() with a handler that reports the exception and goes on with the next step
UncaughtSwallowed(step) ==
    /\ outcome' = outcome
    /\ failedAt' = step
    /\ pc' = NextPc(step)

\* an exception other than ValueError leaves main(): nothing after the step runs
Uncaught(step) ==
    /\ outcome' = "crashed"
    /\ failedAt' = step
    /\ pc' = "done"

\* the step returned normally
Advance(step) ==
    /\ pc' = NextPc(step)
    /\ UNCHANGED <<outcome, failedAt>>

\* `except ValueError`: the error is printed and main() returns
InvalidInput ==
    /\ outcome' = "input_error"
    /\ pc' = "done"
    /\ UNCHANGED failedAt

InitMain ==
    /\ fs \in Homes
    /\ orig = fs
    /\ snap = fs
    /\ pc = "input_dpi"
    /\ outcome = "running"
    /\ failedAt = "none"
    /\ injected = FALSE
    /\ dpi = -1
    /\ font_size = -1
    /\ cmds = << >>
    /\ args = [op |-> "main"]
    /\ calls = 0

InputDpi ==
    /\ pc = "input_dpi"
    /\ \E s \in DpiInputs :
          IF IsInt(s)
          THEN dpi' = ParseInt(s) /\ Advance(pc)
          ELSE dpi' = dpi /\ InvalidInput
    /\ UNCHANGED <<fs, orig, snap, injected, font_size, cmds, args, calls>>

InputFontSize ==
    /\ pc = "input_font"
    /\ \E s \in FontInputs :
          IF IsInt(s)
          THEN font_size' = ParseInt(s) /\ Advance(pc)
          ELSE font_size' = font_size /\ InvalidInput
    /\ UNCHANGED <<fs, orig, snap, injected, dpi, cmds, args, calls>>

\* a step that rewrites one file and returns
WriteStep(step, path, file) ==
    /\ snap' = fs
    /\ fs' = [fs EXCEPT ![path] = file]
    /\ Advance(step)
    /\ UNCHANGED <<orig, injected, dpi, font_size, cmds, args, calls>>

SetXresourcesDpi ==
    /\ pc = "xresources"
    /\ WriteStep(pc, XresourcesPath,
                 update_or_append_line(fs[XresourcesPath], XresourcesPath, "Xft.dpi",
                                       IntToStr(dpi), FALSE))

\* subprocess.run without check=True: a non-zero exit status is ignored, a
\* missing executable raises FileNotFoundError
RunCommand(step, cmd) ==
    /\ \E st \in CmdStatus :
          IF st = "notfound"
          THEN cmds' = cmds /\ Uncaught(step)
          ELSE /\ cmds' = Append(cmds, [cmd |-> cmd, status |-> st])
               /\ pc' = NextPc(step)
               /\ outcome' = IF NextPc(step) = "done" THEN "success" ELSE outcome
               /\ UNCHANGED failedAt
    /\ UNCHANGED <<fs, orig, snap, injected, dpi, font_size, args, calls>>

XrdbMerge ==
    /\ pc = "xrdb"
    /\ RunCommand(pc, "xrdb -merge")

\* open(i3_config_path, 'r') raises FileNotFoundError when neither config exists
SetI3FontSize ==
    /\ pc = "i3"
    /\ IF fs[I3Path(fs)].exists
       THEN WriteStep(pc, I3Path(fs), set_i3_font_size(fs[I3Path(fs)], font_size, dpi))
       ELSE /\ Uncaught(pc)
            /\ UNCHANGED <<fs, orig, snap, injected, dpi, font_size, cmds, args, calls>>

SetGtk3 ==
    /\ pc = "gtk3"
    /\ WriteStep(pc, Gtk3ConfigPath,
                     update_config_file(fs[Gtk3ConfigPath], Gtk3ConfigPath,
                                        Gtk3Settings(dpi, font_size)))

SetGtk2 ==
    /\ pc = "gtk2"
    /\ WriteStep(pc, Gtk2ConfigPath,
                     update_config_file(fs[Gtk2ConfigPath], Gtk2ConfigPath,
                                        Gtk2Settings(dpi, font_size)))

SetGtk4 ==
    /\ pc = "gtk4"
    /\ WriteStep(pc, Gtk4ConfigPath,
                     update_config_file(fs[Gtk4ConfigPath], Gtk4ConfigPath,
                                        Gtk4Settings(dpi, font_size)))

SetQtScaleFactor ==
    /\ pc = "qt_scale"
    /\ WriteStep(pc, ProfilePath,
                     update_or_append_env_var(fs[ProfilePath], "QT_SCALE_FACTOR",
                                              scale_factor_str(dpi)))

SetQtFontDpi ==
    /\ pc = "qt_dpi"
    /\ WriteStep(pc, ProfilePath,
                     update_or_append_env_var(fs[ProfilePath], "QT_FONT_DPI", IntToStr(dpi)))

RestartI3wm ==
    /\ pc = "restart"
    /\ RunCommand(pc, "i3-msg restart")

\* the environment: a read or a write of the step's file fails with an OSError,
\* either before the file is touched or after open(path, 'w') emptied it
IOFailure ==
    /\ pc \in FileSteps
    /\ \E truncated \in BOOLEAN :
          /\ truncated => (pc # "i3" \/ fs[I3Path(fs)].exists)
          /\ fs' = IF truncated THEN [fs EXCEPT ![StepPath(pc, fs)] = File("")] ELSE fs
    /\ injected' = TRUE
    /\ Uncaught(pc)
    /\ UNCHANGED <<orig, snap, dpi, font_size, cmds, args, calls>>

Next ==
    \/ InputDpi
    \/ InputFontSize
    \/ SetXresourcesDpi
    \/ XrdbMerge
    \/ SetI3FontSize
    \/ SetGtk3
    \/ SetGtk2
    \/ SetGtk4
    \/ SetQtScaleFactor
    \/ SetQtFontDpi
    \/ RestartI3wm
    \/ IOFailure

Spec == InitMain /\ [][Next]_vars

---------------------------------------------------------------------------
(* One function driven alone, called MaxCalls times on the same file with   *)
(* the same arguments                                                      *)

GtkLinePool ==
    {"gtk-font-name=Sans 10\n", "gtk-xft-dpi = 96000\n", "  gtk-dpi=96\n",
     "[Settings]\n", "gtk-theme-name=Adwaita\n"}

SettingsPool ==
    {Gtk3Settings(144, 14),
     Gtk2Settings(96, 12),
     << [key |-> "gtk-xft-dpi", value |-> "144000"],
        [key |-> "gtk-font-name", value |-> "Sans 14"] >>,
     << [key |-> "gtk-dpi", value |-> "144"] >>}

XresourcesLinePool == {"Xft.dpi: 96\n", "  Xft.dpi:120\n", "*background: black\n"}

I3LinePool ==
    {"font pango:DejaVu Sans 10\n", "  font pango:monospace 8\n",
     "exec xrandr --dpi 96\n", "exec xrandr --dpi 120\n",
     "bindsym Mod1+Return exec i3-sensible-terminal\n"}

EnvLinePool ==
    {"export QT_FONT_DPI=144\n", "export QT_FONT_DPI=96\n", "  export QT_FONT_DPI=144\n",
     "export QT_FONT_DPI=x=144\n", "export PATH=$HOME/bin:$PATH\n"}

InitHarness ==
    /\ orig = fs
    /\ snap = fs
    /\ pc = "harness"
    /\ outcome = "running"
    /\ failedAt = "none"
    /\ injected = FALSE
    /\ cmds = << >>
    /\ calls = 0

CanCall(op) ==
    /\ pc = "harness"
    /\ outcome = "running"
    /\ args.op = op
    /\ calls < MaxCalls

\* the call returned, having written the file at path
Called(path, file) ==
    /\ snap' = fs
    /\ fs' = [fs EXCEPT ![path] = file]
    /\ calls' = calls + 1
    /\ UNCHANGED <<orig, pc, outcome, failedAt, injected, dpi, font_size, cmds, args>>

InitLine ==
    /\ \/ \E path \in {Gtk3ConfigPath, Gtk2ConfigPath}, f \in Files(GtkLinePool, MaxLines),
             st \in SettingsPool :
             /\ args = [op |-> "update_config_file", path |-> path, settings |-> st]
             /\ fs = [EmptyHome EXCEPT ![path] = f]
       \/ \E path \in {XresourcesPath, ProfilePath},
             f \in Files(XresourcesLinePool, MaxLines),
             value \in {"120", "144"}, command \in BOOLEAN :
             /\ args = [op |-> "update_or_append_line", path |-> path, key |-> "Xft.dpi",
                        value |-> value, command |-> command]
             /\ fs = [EmptyHome EXCEPT ![path] = f]
    /\ dpi = -1
    /\ font_size = -1
    /\ InitHarness

CallUpdateConfigFile ==
    /\ CanCall("update_config_file")
    /\ Called(args.path, update_config_file(fs[args.path], args.path, args.settings))

CallUpdateOrAppendLine ==
    /\ CanCall("update_or_append_line")
    /\ Called(args.path,
              update_or_append_line(fs[args.path], args.path, args.key, args.value,
                                    args.command))

NextLine == CallUpdateConfigFile \/ CallUpdateOrAppendLine

SpecLine == InitLine /\ [][NextLine]_vars

InitI3 ==
    /\ \E i \in Files(I3LinePool, MaxLines), l \in LegacyI3ConfigPool :
          fs = [EmptyHome EXCEPT ![I3ConfigPath] = i, ![LegacyI3ConfigPath] = l]
    /\ args = [op |-> "set_i3_font_size"]
    /\ dpi \in {96, 144}
    /\ font_size \in {12, 14}
    /\ InitHarness

CallSetI3FontSize ==
    /\ CanCall("set_i3_font_size")
    /\ IF fs[I3Path(fs)].exists
       THEN Called(I3Path(fs), set_i3_font_size(fs[I3Path(fs)], font_size, dpi))
       ELSE /\ Uncaught("i3")
            /\ UNCHANGED <<fs, orig, snap, injected, dpi, font_size, cmds, args, calls>>

NextI3 == CallSetI3FontSize

SpecI3 == InitI3 /\ [][NextI3]_vars

InitEnv ==
    /\ \E f \in Files(EnvLinePool, MaxLines), key \in {"QT_FONT_DPI", "QT_SCALE_FACTOR"},
          value \in {"144", "1.5"} :
          /\ args = [op |-> "update_or_append_env_var", key |-> key, value |-> value]
          /\ fs = [EmptyHome EXCEPT ![ProfilePath] = f]
    /\ dpi = -1
    /\ font_size = -1
    /\ InitHarness

CallUpdateOrAppendEnvVar ==
    /\ CanCall("update_or_append_env_var")
    /\ Called(ProfilePath, update_or_append_env_var(fs[ProfilePath], args.key, args.value))

NextEnv == CallUpdateOrAppendEnvVar

SpecEnv == InitEnv /\ [][NextEnv]_vars

---------------------------------------------------------------------------
(* Vocabulary of the properties *)

\* the lines of a file as a reader of the file sees them
LinesOf(f) == readlines(f.content)

\* a line without its line terminator
Chomp(line) == Unterminated(line)

\* the indices of the lines whose trimmed content starts with key
Matching(lines, key) == {i \in 1..Len(lines) : StartsWith(Strip(lines[i]), key)}

\* the canonical rendering of a key and its value in the dialect of the path
Canonical(path, key, value) ==
    IF EndsWith(path, ".Xresources") THEN key \o ": " \o value
    ELSE IF EndsWith(path, ".ini") THEN key \o "=" \o value
    ELSE key \o " = " \o value

\* the file ends with its last line terminated, or is empty or missing
Terminated(f) == f.content = "" \/ EndsWith(f.content, "\n")

HarnessCalled(op) == pc = "harness" /\ args.op = op /\ outcome = "running" /\ calls >= 1

---------------------------------------------------------------------------
\* C1: Idempotence of the Line Reconciler: for every starting file content (absent,
\* empty, any lines, last line terminated or not) and every settings mapping, the
\* second of two successive update_config_file calls with the same mapping leaves
\* the file byte-for-byte as the first call left it; the same for two successive
\* update_or_append_line calls with the same key and value.
C1_Idempotent ==
    (pc = "harness" /\ args.op \in {"update_config_file", "update_or_append_line"}
        /\ calls >= 2)
    => fs = snap

\* C2: Completeness of the Line Reconciler: after update_config_file, for every key
\* K of the mapping the file has exactly one line whose trimmed content starts with
\* K, and it is the canonical rendering of K and its value (K=V for a path ending in
\* .ini, K = V otherwise); after update_or_append_line on a path ending in
\* .Xresources the file has exactly one line starting with the key, and it is K: V.
C2_Complete ==
    /\ HarnessCalled("update_config_file") =>
          \A k \in 1..Len(args.settings) :
             LET out == LinesOf(fs[args.path])
                 M == Matching(out, args.settings[k].key)
             IN  /\ Cardinality(M) = 1
                 /\ \A j \in M : Chomp(out[j]) = Canonical(args.path, args.settings[k].key,
                                                           args.settings[k].value)
    /\ (HarnessCalled("update_or_append_line") /\ args.path = XresourcesPath
            /\ ~args.command) =>
          LET out == LinesOf(fs[args.path])
              M == Matching(out, args.key)
          IN  /\ Cardinality(M) = 1
              /\ \A j \in M : Chomp(out[j]) = args.key \o ": " \o args.value

\* the keys no input line matches, in the mapping's iteration order
UnmatchedKeys(lines, settings) ==
    SelectSeq(settings, LAMBDA kv : Matching(lines, kv.key) = {})

\* C3: Preservation: every input line whose trimmed content starts with no key of
\* the mapping is in the file update_config_file writes, byte-identical and at the
\* same position; a rewritten line stays at the index of the line it replaces; the
\* lines for the unmatched keys come after the last input line, in the mapping's
\* iteration order.
C3_Preserved ==
    (HarnessCalled("update_config_file") /\ calls = 1) =>
        LET inp == LinesOf(orig[args.path])
            out == LinesOf(fs[args.path])
            new == UnmatchedKeys(inp, args.settings)
        IN  /\ Len(out) = Len(inp) + Len(new)
            /\ \A i \in 1..Len(inp) :
                  LET k == FirstKey(inp[i], args.settings)
                  IN  IF k = 0 THEN out[i] = inp[i]
                      ELSE Chomp(out[i]) = Canonical(args.path, args.settings[k].key,
                                                     args.settings[k].value)
            /\ \A j \in 1..Len(new) :
                  Chomp(out[Len(inp) + j]) = Canonical(args.path, new[j].key, new[j].value)

\* the smallest element of a non-empty set of numbers
Least(S) == CHOOSE i \in S : \A j \in S : i <= j

XrandrLines(lines) == Matching(lines, "exec xrandr --dpi")

FontLines(lines) == Matching(lines, "font")

\* C4: Duplicate collapse of the display-scaling command directive: after
\* set_i3_font_size on any existing config, the file has exactly one line matching
\* `exec xrandr --dpi`; it is exactly `exec xrandr --dpi <dpi>`, at the position of
\* the first matching input line (the later ones are dropped), or the last line of
\* the file when no input line matched.
C4_DuplicateCollapse ==
    (HarnessCalled("set_i3_font_size") /\ calls = 1) =>
        LET inp == LinesOf(orig[I3Path(orig)])
            out == LinesOf(fs[I3Path(orig)])
        IN  /\ Cardinality(XrandrLines(out)) = 1
            /\ \A j \in XrandrLines(out) :
                  /\ Chomp(out[j]) = "exec xrandr --dpi " \o IntToStr(dpi)
                  /\ j = IF XrandrLines(inp) = {} THEN Len(out)
                         ELSE Least(XrandrLines(inp))

DroppedBefore(lines, i) ==
    Cardinality({j \in XrandrLines(lines) : j < i /\ j # Least(XrandrLines(lines))})

C6_ExportContract ==
    (HarnessCalled("update_or_append_env_var") /\ calls = 1) =>
        LET inp == LinesOf(orig[ProfilePath])
            out == LinesOf(fs[ProfilePath])
            prefix == "export " \o args.key \o "="
            M == Matching(inp, prefix)
            after(line) == SubSeq(Strip(line), Len(prefix) + 1, Len(Strip(line)))
        IN  /\ Len(out) = IF M = {} THEN Len(inp) + 1 ELSE Len(inp)
            /\ M = {} => Chomp(out[Len(out)]) = prefix \o args.value
            /\ \A i \in 1..Len(inp) :
                  IF i \in M /\ after(inp[i]) # args.value
                  THEN Chomp(out[i]) = prefix \o args.value
                  ELSE out[i] = inp[i]

---------------------------------------------------------------------------
(* The whole run *)

HasLine(f, text) == \E i \in 1..Len(LinesOf(f)) : Chomp(LinesOf(f)[i]) = text

Invoked(cmd) == \E i \in 1..Len(cmds) : cmds[i].cmd = cmd

Exited(cmd, status) == \E i \in 1..Len(cmds) : cmds[i].cmd = cmd /\ cmds[i].status = status

\* nothing outside the program went wrong: no file operation failed, both external
\* commands were found and every command that ran exited with status 0
NoFault ==
    /\ ~injected
    /\ failedAt \notin {"xrdb", "restart"}
    /\ \A i \in 1..Len(cmds) : cmds[i].status = "ok"

\* C7: End-to-end from a clean home: with none of the target files existing and the
\* user entering DPI 144 and font size 14, the run executes every step through the
\* window-manager restart, and at the end ~/.Xresources ends with `Xft.dpi: 144`,
\* the GTK3 settings.ini has the lines `gtk-font-name = Sans 14`, `gtk-dpi = 144`
\* and `gtk-xft-dpi = 144000`, and ~/.profile has `export QT_SCALE_FACTOR=1.5` and
\* `export QT_FONT_DPI=144`.
C7_CleanHomeEndToEnd ==
    (pc = "done" /\ orig = EmptyHome /\ dpi = 144 /\ font_size = 14 /\ NoFault) =>
        /\ outcome = "success"
        /\ Invoked("i3-msg restart")
        /\ EndsWith(Chomp(fs[XresourcesPath].content), "Xft.dpi: 144")
        /\ HasLine(fs[Gtk3ConfigPath], "gtk-font-name = Sans 14")
        /\ HasLine(fs[Gtk3ConfigPath], "gtk-dpi = 144")
        /\ HasLine(fs[Gtk3ConfigPath], "gtk-xft-dpi = 144000")
        /\ HasLine(fs[ProfilePath], "export QT_SCALE_FACTOR=1.5")
        /\ HasLine(fs[ProfilePath], "export QT_FONT_DPI=144")

\* the steps of a run, in the order the claim gives; the two passes over .profile
\* are one step
RunOrder == <<"xresources", "xrdb", "i3", "gtk3", "gtk2", "gtk4", "profile", "restart">>

StepName(p) == IF p \in {"qt_scale", "qt_dpi"} THEN "profile" ELSE p

\* how many steps of RunOrder come before position p
StepsBefore(p) ==
    IF p \in {"input_dpi", "input_font"} THEN 0
    ELSE IF p = "done" THEN Len(RunOrder)
    ELSE (CHOOSE i \in 1..Len(RunOrder) : RunOrder[i] = StepName(p)) - 1

\* the fully reconciled content of the file at path
Reconciled(path) ==
    CASE path = XresourcesPath ->
           update_or_append_line(orig[path], path, "Xft.dpi", IntToStr(dpi), FALSE)
      [] path \in {I3ConfigPath, LegacyI3ConfigPath} ->
           IF path = I3Path(orig) THEN set_i3_font_size(orig[path], font_size, dpi)
           ELSE orig[path]
      [] path = Gtk3ConfigPath ->
           update_config_file(orig[path], path, Gtk3Settings(dpi, font_size))
      [] path = Gtk2ConfigPath ->
           update_config_file(orig[path], path, Gtk2Settings(dpi, font_size))
      [] path = Gtk4ConfigPath ->
           update_config_file(orig[path], path, Gtk4Settings(dpi, font_size))
      [] path = ProfilePath ->
           update_or_append_env_var(
               update_or_append_env_var(orig[path], "QT_SCALE_FACTOR",
                                        scale_factor_str(dpi)),
               "QT_FONT_DPI", IntToStr(dpi))

\* the step of RunOrder that writes the file at path
StepOf(path) ==
    CASE path = XresourcesPath -> "xresources"
      [] path \in {I3ConfigPath, LegacyI3ConfigPath} -> "i3"
      [] path = Gtk3ConfigPath -> "gtk3"
      [] path = Gtk2ConfigPath -> "gtk2"
      [] path = Gtk4ConfigPath -> "gtk4"
      [] path = ProfilePath -> "profile"

\* C8: Non-transactional abort: the run visits its steps in the fixed order
\* .Xresources, resource-merge command, window-manager config, GTK3, GTK2, GTK4,
\* .profile, restart; when an I/O error stops it at step k, every file of a step
\* before k holds its fully reconciled content, every file of a step after k is as
\* it was before the run, and the restart command is never invoked.
C8_NonTransactionalAbort ==
    outcome # "input_error" =>
        LET k == IF failedAt = "none" THEN pc ELSE failedAt
        IN  /\ \A path \in Paths :
                  /\ StepsBefore(StepOf(path)) < StepsBefore(k)
                        => fs[path] = Reconciled(path)
                  /\ StepsBefore(StepOf(path)) > StepsBefore(k)
                        => fs[path] = orig[path]
            /\ failedAt \in FileSteps =>
                  /\ pc = "done"
                  /\ outcome = "crashed"
                  /\ ~Invoked("i3-msg restart")
                  /\ Invoked("xrdb -merge") <=> StepsBefore("xrdb") < StepsBefore(k)

\* the run was stopped by an I/O error on the GTK2 file, between files already
\* rewritten and files not yet reached
C8_Witness ==
    /\ failedAt = "gtk2"
    /\ injected
    /\ fs[XresourcesPath] # orig[XresourcesPath]
    /\ fs[Gtk3ConfigPath] # orig[Gtk3ConfigPath]
    /\ fs[Gtk4ConfigPath] = orig[Gtk4ConfigPath]
    /\ fs[ProfilePath] = orig[ProfilePath]

\* the files the steps after the resource-merge command write
AfterXrdb == Paths \ {XresourcesPath}

\* C9: External command failure aborts the run: when the resource-merge command
\* exits non-zero or is not found, no step after it runs (window-manager config, GTK
\* files and .profile stay untouched, the restart command is not invoked); when the
\* restart command exits non-zero or is not found, the run ends in an error outcome
\* rather than reporting success.
C9_CommandFailureAborts ==
    /\ (Exited("xrdb -merge", "nonzero") \/ failedAt = "xrdb") =>
          /\ \A path \in AfterXrdb : fs[path] = orig[path]
          /\ ~Invoked("i3-msg restart")
          /\ outcome # "success"
    /\ (Exited("i3-msg restart", "nonzero") \/ failedAt = "restart") =>
          outcome # "success"

\* C10: Invalid input writes nothing: when the DPI or the font size entered is not
\* an integer (a valid DPI followed by an invalid font size included), the run
\* reports the input error and ends with no target file created or modified and no
\* external command invoked; both inputs are collected before the first file
\* mutation.
C10_InvalidInputWritesNothing ==
    /\ outcome = "input_error" => (pc = "done" /\ fs = orig /\ cmds = << >>)
    /\ pc \in {"input_dpi", "input_font"} => (fs = orig /\ cmds = << >>)
    /\ (fs # orig \/ cmds # << >>) => (dpi # -1 /\ font_size # -1)

\* a valid DPI was entered, then a font size that is no integer
C10_Witness ==
    /\ outcome = "input_error"
    /\ pc = "done"
    /\ dpi = 144
    /\ font_size = -1

====
